---- MODULE Spec2Model ----
(***************************************************************************)
(* QuickQR: the POST /api/generate pipeline (upload middleware, request    *)
(* validation, symbol encoding, logo compositing, persistence, response)   *)
(* and the two GET endpoints of server/routes.ts with shared/schema.ts and *)
(* server/storage.ts, and the QrGenerator component of the client.         *)
(*                                                                         *)
(* Text is a sequence of one-character strings, so that the regular        *)
(* expressions, parseInt, startsWith and the URL parser are computed on    *)
(* the characters.  An optional form field is a record                     *)
(* [present, val]; a JavaScript number is a record [isNaN, val].           *)
(***************************************************************************)
EXTENDS Integers, Sequences, FiniteSets, TLC

VARIABLES
    req,          \* req[r]: the POST /api/generate request in flight in slot r
    store,        \* MemStorage.qrCodes
    storageFault, \* storage.createQrCode rejects
    got,          \* the last answer of a GET endpoint
    client        \* the QrGenerator component: its state, reads and requests in flight

\* what a step of POST /api/generate leaves alone
others == <<storageFault, got, client>>

\* what a step of the client leaves alone
serverVars == <<req, store, storageFault, got>>

vars == <<req, store, storageFault, got, client>>

(***************************************************************************)
(* Characters and text                                                     *)
(***************************************************************************)
DigitSeq == <<"0","1","2","3","4","5","6","7","8","9">>
LowerSeq == <<"a","b","c","d","e","f","g","h","i","j","k","l","m","n","o","p","q","r","s","t","u","v","w","x","y","z">>
UpperSeq == <<"A","B","C","D","E","F","G","H","I","J","K","L","M","N","O","P","Q","R","S","T","U","V","W","X","Y","Z">>

Range(s) == {s[i] : i \in 1..Len(s)}

Digits == Range(DigitSeq)
Alpha == Range(LowerSeq) \cup Range(UpperSeq)
HexDigits == Digits \cup {"a","b","c","d","e","f","A","B","C","D","E","F"}
Whitespace == {" ", "\t", "\n"}

IndexIn(c, s) == CHOOSE i \in 1..Len(s) : s[i] = c

ToLower(c) == IF c \in Range(UpperSeq) THEN LowerSeq[IndexIn(c, UpperSeq)] ELSE c

LowerText(s) == [i \in 1..Len(s) |-> ToLower(s[i])]

\* value of a character as a digit of the radix (16 when it is no digit of it)
DigitValue(c, radix) ==
    LET l == ToLower(c)
    IN  IF c \in Digits THEN IndexIn(c, DigitSeq) - 1
        ELSE IF radix = 16 /\ l \in {"a","b","c","d","e","f"} THEN 9 + IndexIn(l, LowerSeq)
        ELSE 16

Drop(s, n) == SubSeq(s, n + 1, Len(s))

Take(s, n) == SubSeq(s, 1, n)

\* String.prototype.startsWith
StartsWith(s, prefix) == Len(s) >= Len(prefix) /\ Take(s, Len(prefix)) = prefix

\* length of the longest prefix whose characters are all in the set
PrefixLen(s, set) ==
    IF \A i \in 1..Len(s) : s[i] \in set THEN Len(s)
    ELSE (CHOOSE i \in 1..Len(s) : s[i] \notin set /\ \A j \in 1..(i - 1) : s[j] \in set) - 1

TrimLeft(s) == Drop(s, PrefixLen(s, Whitespace))

Reverse(s) == [i \in 1..Len(s) |-> s[Len(s) + 1 - i]]

Trim(s) == Reverse(TrimLeft(Reverse(TrimLeft(s))))

RECURSIVE NumberOf(_, _)
\* the number a sequence of digits of the radix denotes
NumberOf(ds, radix) ==
    IF ds = <<>> THEN 0
    ELSE NumberOf(Take(ds, Len(ds) - 1), radix) * radix + DigitValue(ds[Len(ds)], radix)

RECURSIVE ToDecimal(_)
\* String(n) for a natural number
ToDecimal(n) ==
    IF n < 10 THEN <<DigitSeq[n + 1]>>
    ELSE Append(ToDecimal(n \div 10), DigitSeq[(n % 10) + 1])

(***************************************************************************)
(* Optional values and JavaScript numbers                                  *)
(***************************************************************************)
Absent == [present |-> FALSE, val |-> <<>>]

Some(s) == [present |-> TRUE, val |-> s]

NaN == [isNaN |-> TRUE, val |-> 0]

Num(n) == [isNaN |-> FALSE, val |-> n]

\* truthiness of a form field: undefined and "" are falsy
Truthy(v) == v.present /\ v.val # <<>>

\* v || d on a form field
OrText(v, d) == IF Truthy(v) THEN v ELSE Some(d)

\* n || d on a number: NaN and 0 are falsy
OrNumber(n, d) == IF n.isNaN \/ n.val = 0 THEN Num(d) ELSE n

\* parseInt(v): leading white space, a sign, an optional 0x, then the longest
\* run of digits; NaN when there is none (parseInt(undefined) reads "undefined")
ParseInt(v) ==
    IF ~v.present THEN NaN
    ELSE LET s == TrimLeft(v.val)
             signed == s # <<>> /\ s[1] \in {"+", "-"}
             body == IF signed THEN Tail(s) ELSE s
             hex == Len(body) >= 2 /\ body[1] = "0" /\ body[2] \in {"x", "X"}
             radix == IF hex THEN 16 ELSE 10
             rest == IF hex THEN Drop(body, 2) ELSE body
             n == PrefixLen(rest, {c \in Range(rest) : DigitValue(c, radix) < radix})
             magnitude == NumberOf(Take(rest, n), radix)
         IN  IF n = 0 THEN NaN
             ELSE IF signed /\ s[1] = "-" THEN Num(0 - magnitude) ELSE Num(magnitude)

(***************************************************************************)
(* new URL(s), as z.string().url() calls it: the URL parser without a base *)
(* (scheme, then for a special scheme a non-empty host, for another scheme *)
(* an optional authority or an opaque path).  Hosts are ASCII domains:     *)
(* percent-escapes, IDNA, numeric and bracketed hosts are not modelled.    *)
(***************************************************************************)
SchemeChars == Alpha \cup Digits \cup {"+", "-", "."}

SpecialSchemes == {<<"h","t","t","p">>, <<"h","t","t","p","s">>, <<"f","t","p">>,
                   <<"w","s">>, <<"w","s","s">>, <<"f","i","l","e">>}

FileScheme == <<"f","i","l","e">>

ForbiddenHostChars == {" ", "\t", "\n", "#", "/", ":", "<", ">", "?", "@", "[", "\\", "]", "^", "|", "%"}

UrlFailure == [ok |-> FALSE, scheme |-> <<>>, host |-> <<>>]

LastIndexOf(c, s) ==
    IF c \in Range(s) THEN CHOOSE i \in 1..Len(s) : s[i] = c /\ \A j \in (i + 1)..Len(s) : s[j] # c
    ELSE 0

\* the authority's host: after the last "@", before the port
HostOf(authority) ==
    LET hostport == Drop(authority, LastIndexOf("@", authority))
        colon == LastIndexOf(":", hostport)
    IN  IF colon = 0 THEN hostport ELSE Take(hostport, colon - 1)

PortOf(authority) ==
    LET hostport == Drop(authority, LastIndexOf("@", authority))
        colon == LastIndexOf(":", hostport)
    IN  IF colon = 0 THEN <<>> ELSE Drop(hostport, colon)

PortOk(port) == (\A i \in 1..Len(port) : port[i] \in Digits) /\ NumberOf(port, 10) <= 65535

ParseUrl(text) ==
    LET s == Trim(text)
        schemeLen == PrefixLen(s, SchemeChars)
        hasScheme == s # <<>> /\ s[1] \in Alpha /\ schemeLen < Len(s) /\ s[schemeLen + 1] = ":"
        scheme == LowerText(Take(s, schemeLen))
        rest == Drop(s, schemeLen + 1)
        special == scheme \in SpecialSchemes
        \* a special scheme ignores any run of slashes before the authority
        afterSlashes == IF special THEN Drop(rest, PrefixLen(rest, {"/", "\\"}))
                        ELSE Drop(rest, 2)
        hasAuthority == special \/ StartsWith(rest, <<"/", "/">>)
        stops == IF special THEN {"/", "\\", "?", "#"} ELSE {"/", "?", "#"}
        authority == Take(afterSlashes, PrefixLen(afterSlashes, Range(afterSlashes) \ stops))
        host == HostOf(authority)
        hostOk == (\A i \in 1..Len(host) : host[i] \notin ForbiddenHostChars)
                  /\ PortOk(PortOf(authority))
    IN  IF ~hasScheme THEN UrlFailure
        ELSE IF scheme = FileScheme THEN [ok |-> TRUE, scheme |-> scheme, host |-> <<>>]
        ELSE IF special
             THEN IF host # <<>> /\ hostOk
                  THEN [ok |-> TRUE, scheme |-> scheme, host |-> LowerText(host)]
                  ELSE UrlFailure
        ELSE IF hasAuthority
             THEN IF hostOk THEN [ok |-> TRUE, scheme |-> scheme, host |-> host] ELSE UrlFailure
        ELSE [ok |-> TRUE, scheme |-> scheme, host |-> <<>>]

(***************************************************************************)
(* shared/schema.ts: qrGenerateRequestSchema                               *)
(***************************************************************************)
MinSize == 200
MaxSize == 400
DefaultSize == 300

DefaultForeground == <<"#","0","0","0","0","0","0">>
DefaultBackground == <<"#","f","f","f","f","f","f">>

\* /^#[0-9A-Fa-f]{6}$/
MatchesHexColor(s) ==
    Len(s) = 7 /\ s[1] = "#" /\ \A i \in 2..7 : s[i] \in HexDigits

\* z.string().url(): a string that new URL() parses
ZodUrlOk(v) == v.present /\ ParseUrl(v.val).ok

\* z.string().regex(...).default(d): the default for undefined, else the regex
ZodColorOk(v) == ~v.present \/ MatchesHexColor(v.val)

ZodColorValue(v, d) == IF v.present THEN v.val ELSE d

\* z.number().min(200).max(400).default(300)
ZodSizeOk(n) == ~n.present \/ (~n.val.isNaN /\ n.val.val >= MinSize /\ n.val.val <= MaxSize)

ZodSizeValue(n) == IF n.present THEN n.val.val ELSE DefaultSize

\* the schema without the check of the url
SchemaIssuesUrlUnchecked(obj) ==
    {f \in {"foregroundColor"} : ~ZodColorOk(obj.foregroundColor)}
    \cup {f \in {"backgroundColor"} : ~ZodColorOk(obj.backgroundColor)}
    \cup {f \in {"size"} : ~ZodSizeOk(obj.size)}

\* the fields whose issues a ZodError lists: every check runs, none stops the others
SchemaIssues(obj) ==
    {f \in {"url"} : ~ZodUrlOk(obj.url)}
    \cup {f \in {"foregroundColor"} : ~ZodColorOk(obj.foregroundColor)}
    \cup {f \in {"backgroundColor"} : ~ZodColorOk(obj.backgroundColor)}
    \cup {f \in {"size"} : ~ZodSizeOk(obj.size)}

\* qrGenerateRequestSchema.parse(obj): the parsed data, when there is no issue
SchemaData(obj) ==
    [url |-> obj.url.val,
     foregroundColor |-> ZodColorValue(obj.foregroundColor, DefaultForeground),
     backgroundColor |-> ZodColorValue(obj.backgroundColor, DefaultBackground),
     size |-> ZodSizeValue(obj.size)]

(***************************************************************************)
(* server/routes.ts: the upload middleware (multer)                        *)
(***************************************************************************)
FileSizeLimit == 2 * 1024 * 1024

ImagePrefix == <<"i","m","a","g","e","/">>

NoFile == [present |-> FALSE, mimetype |-> <<>>, bytes |-> 0, decodable |-> FALSE]

\* fileFilter: cb(null, true) for an image MIME type, else cb(new Error(...))
FileFilterAccepts(file) == StartsWith(file.mimetype, ImagePrefix)

\* the limit taken as exclusive
FileTooLargeAtLimit(file) == file.bytes >= FileSizeLimit

\* limits.fileSize: the largest file the upload takes
FileTooLarge(file) == file.bytes > FileSizeLimit

NoError == [name |-> "", message |-> ""]

FilterError == [name |-> "Error", message |-> "Only image files are allowed"]

LimitError == [name |-> "MulterError", message |-> "File too large"]

\* upload.single("logo"): the error handed to next(err), NoError when req.file is set
\* or left undefined; the filter runs on the part's headers, before its bytes are read
UploadError(part) ==
    IF ~part.present THEN NoError
    ELSE IF ~FileFilterAccepts(part) THEN FilterError
    ELSE IF FileTooLarge(part) THEN LimitError
    ELSE NoError

(***************************************************************************)
(* server/routes.ts: POST /api/generate, request parsing                   *)
(***************************************************************************)
FormatPng == <<"p","n","g">>
FormatSvg == <<"s","v","g">>

\* const { ..., format = "png" } = req.body: the default stands for undefined only
FormatOf(body) == IF body.format.present THEN body.format.val ELSE FormatPng

\* the object handed to qrGenerateRequestSchema.parse
ParseInput(body) ==
    [url |-> body.url,
     foregroundColor |-> OrText(body.foregroundColor, DefaultForeground),
     backgroundColor |-> OrText(body.backgroundColor, DefaultBackground),
     size |-> Some(OrNumber(ParseInt(body.size), DefaultSize))]

NoData == [url |-> <<>>, foregroundColor |-> <<>>, backgroundColor |-> <<>>, size |-> 0]

\* qrOptions
QrOptions(data) ==
    [color |-> [dark |-> data.foregroundColor, light |-> data.backgroundColor],
     width |-> data.size,
     margin |-> 1]

\* the branch taken on the logo alone
EncoderFunctionLogoFirst(format, file) ==
    IF file.present THEN "toBuffer"
    ELSE IF format = FormatSvg THEN "toString"
    ELSE "toDataURL"

\* the three branches: which encoder function the request calls
EncoderFunction(format, file) ==
    IF format = FormatSvg THEN "toString"
    ELSE IF file.present THEN "toBuffer"
    ELSE "toDataURL"

EncoderType(fn) ==
    CASE fn = "toString" -> "svg"
      [] fn = "toBuffer" -> "png"
      [] OTHER -> "image/png"

\* QRCode.<fn>(parsedData.url, { ...qrOptions, type })
EncodeCall(data, format, file) ==
    LET fn == EncoderFunction(format, file)
    IN  [fn |-> fn, text |-> data.url, options |-> QrOptions(data) @@ [type |-> EncoderType(fn)]]

(***************************************************************************)
(* The symbol encoder (qrcode)                                             *)
(***************************************************************************)
\* the error-correction level of a call: the option, else the library's default
ErrorCorrectionLevel(options) ==
    IF "errorCorrectionLevel" \in DOMAIN options THEN options.errorCorrectionLevel ELSE "M"

\* bytes a version-40 symbol holds at each level
EncoderCapacity(level) ==
    CASE level = "L" -> 2953
      [] level = "M" -> 2331
      [] level = "Q" -> 1663
      [] OTHER -> 1273

EncoderFails(call) == Len(call.text) > EncoderCapacity(ErrorCorrectionLevel(call.options))

EncoderError == [name |-> "Error", message |-> "The amount of data is too big to be stored in a QR Code"]

NoOverlay == [present |-> FALSE, logo |-> NoFile, side |-> 0, top |-> 0, left |-> 0]

\* the symbol the encoder draws: raster ("png") or markup ("svg")
Symbol(call) ==
    [kind |-> IF call.fn = "toString" THEN "svg" ELSE "png",
     text |-> call.text,
     dark |-> call.options.color.dark,
     light |-> call.options.color.light,
     width |-> call.options.width,
     margin |-> call.options.margin,
     level |-> ErrorCorrectionLevel(call.options),
     overlay |-> NoOverlay]

NoImage == [kind |-> "", text |-> <<>>, dark |-> <<>>, light |-> <<>>, width |-> 0, margin |-> 0,
            level |-> "", overlay |-> NoOverlay]

PngDataUrlPrefix == <<"d","a","t","a",":","i","m","a","g","e","/","p","n","g",";","b","a","s","e","6","4",",">>
SvgDataUrlPrefix == <<"d","a","t","a",":","i","m","a","g","e","/","s","v","g","+","x","m","l",";","b","a","s","e","6","4",",">>

\* a data URL: its text up to the comma, and the image its base64 payload encodes
NoDataUrl == [prefix |-> <<>>, image |-> NoImage]

SvgDataUrl(image) == [prefix |-> SvgDataUrlPrefix, image |-> image]

PngDataUrl(image) == [prefix |-> PngDataUrlPrefix, image |-> image]

(***************************************************************************)
(* Responses                                                               *)
(***************************************************************************)
NoResult == [present |-> FALSE, id |-> "", qrCodeDataUrl |-> NoDataUrl, url |-> <<>>, size |-> 0,
             foregroundColor |-> <<>>, backgroundColor |-> <<>>]

NoResponse == [status |-> 0, message |-> "", errors |-> {}, result |-> NoResult]

\* res.status(status).json({ message })
MessageResponse(status, message) ==
    [status |-> status, message |-> message, errors |-> {}, result |-> NoResult]

\* an error passed to next(err) skips the route's handler and its try/catch; the
\* application answers with err.status, which neither upload error carries, else 500
ErrorStatus(err) == IF "status" \in DOMAIN err THEN err.status ELSE 500

\* the catch block of POST /api/generate
CatchResponse(err, issues) ==
    IF err.name = "ZodError"
    THEN [status |-> 400, message |-> "Invalid request data", errors |-> issues, result |-> NoResult]
    ELSE IF err.name = "MulterError" THEN MessageResponse(400, err.message)
    ELSE MessageResponse(500, err.message)

(***************************************************************************)
(* server/routes.ts: logo compositing (sharp)                              *)
(***************************************************************************)
\* the factor written as 2.5
LogoSizeTenfold(size) == (size * 25) \div 10

\* Math.floor(parsedData.size * 0.25)
LogoSize(size) == (size * 25) \div 100

\* the offset rounded up
LogoPositionRoundedUp(size, logoSize) == (size - logoSize + 1) \div 2

\* Math.floor((parsedData.size - logoSize) / 2)
LogoPosition(size, logoSize) == (size - logoSize) \div 2

\* sharp(req.file.buffer).resize(logoSize, logoSize, { fit: "contain", ... })
ResizeCall(file, logoSize) ==
    [input |-> file, width |-> logoSize, height |-> logoSize, fit |-> "contain"]

\* sharp cannot read a buffer that is no image
ResizeFails(call) == ~call.input.decodable

ResizeError == [name |-> "Error", message |-> "Input buffer contains unsupported image format"]

\* sharp(qrBuffer).composite([{ input: resizedLogo, top, left }])
CompositeCall(qrBuffer, resize, logoPosition) ==
    [base |-> qrBuffer, input |-> resize, top |-> logoPosition, left |-> logoPosition]

\* the raster with the resized logo laid over it
Composite(call) ==
    [call.base EXCEPT !.overlay = [present |-> TRUE, logo |-> call.input.input,
                                   side |-> call.input.width, top |-> call.top, left |-> call.left]]

(***************************************************************************)
(* server/storage.ts: MemStorage                                           *)
(***************************************************************************)
Ids == {"id-a", "id-b", "id-c"}

EmptyStore == [id \in {} |-> NoData]

\* the record createQrCode stores under a new id
QrCodeRecord(id, insert) ==
    [id |-> id, url |-> insert.url, foregroundColor |-> insert.foregroundColor,
     backgroundColor |-> insert.backgroundColor, size |-> insert.size,
     hasLogo |-> insert.hasLogo, logoData |-> insert.logoData]

\* the argument of storage.createQrCode in POST /api/generate
InsertOf(data, file) ==
    [url |-> data.url, foregroundColor |-> data.foregroundColor,
     backgroundColor |-> data.backgroundColor, size |-> data.size,
     hasLogo |-> IF file.present THEN "true" ELSE "false",
     logoData |-> file]

NoRecord == QrCodeRecord("", InsertOf(NoData, NoFile))

\* an id drawn without regard to the ids in use
RandomUUIDAny(map) == Ids

\* randomUUID(): an id no record has
RandomUUID(map) == Ids \ DOMAIN map

\* a map holding the new entry alone
MapSetAlone(map, id, value) == [i \in {id} |-> value]

\* this.qrCodes.set(id, qrCode)
MapSet(map, id, value) == [i \in DOMAIN map \cup {id} |-> IF i = id THEN value ELSE map[i]]

\* the rejection of a storage that cannot create the record
StorageError == [name |-> "Error", message |-> "Failed to create QR code record"]

\* res.json({ id, qrCodeDataUrl, url, size, foregroundColor, backgroundColor, createdAt })
SuccessResponse(saved, dataUrl) ==
    [status |-> 200, message |-> "", errors |-> {},
     result |-> [present |-> TRUE, id |-> saved.id, qrCodeDataUrl |-> dataUrl, url |-> saved.url,
                 size |-> saved.size, foregroundColor |-> saved.foregroundColor,
                 backgroundColor |-> saved.backgroundColor]]

(***************************************************************************)
(* The requests the model sends                                            *)
(***************************************************************************)
UrlExample == <<"h","t","t","p","s",":","/","/","e","x","a","m","p","l","e",".","c","o","m">>
UrlNotAUrl == <<"n","o","t"," ","a"," ","u","r","l">>
UrlMailto == <<"m","a","i","l","t","o",":","s","o","m","e","o","n","e","@","e","x","a","m","p","l","e",".","c","o","m">>
UrlNoHost == <<"h","t","t","p",":","/","/">>
UrlNoScheme == <<"e","x","a","m","p","l","e",".","c","o","m">>

ColorMixedCase == <<"#","1","2","A","b","E","f">>
ColorShort == <<"#","f","f","f">>
ColorName == <<"r","e","d">>
ColorNonHex == <<"#","g","g","g","g","g","g">>
ColorLong == <<"#","0","0","0","0","0","0","0">>

SizeAbc == <<"a","b","c">>
SizePx == <<"2","5","0","p","x">>
SizeHex == <<"0","x","1","2","c">>

FormatGif == <<"g","i","f">>

MimePng == <<"i","m","a","g","e","/","p","n","g">>
MimeText == <<"t","e","x","t","/","p","l","a","i","n">>

\* path characters appended to make a URL longer than any symbol holds
LongPathLen == 3000

UrlLong == UrlExample \o <<"/">> \o [i \in 1..LongPathLen |-> "a"]

File(mimetype, bytes, decodable) ==
    [present |-> TRUE, mimetype |-> mimetype, bytes |-> bytes, decodable |-> decodable]

LogoOk == File(MimePng, 1024, TRUE)

Body(url, fg, bg, size, format) ==
    [url |-> url, foregroundColor |-> fg, backgroundColor |-> bg, size |-> size, format |-> format]

Urls == {Absent, Some(<<>>), Some(UrlNotAUrl), Some(UrlExample), Some(UrlMailto), Some(UrlNoHost)}

Foregrounds == {Absent, Some(<<>>), Some(ColorMixedCase), Some(ColorNonHex)}

Backgrounds == {Absent, Some(ColorShort), Some(DefaultBackground)}

SizeTexts == {Absent, Some(<<>>), Some(SizeAbc), Some(SizePx), Some(SizeHex)}
             \cup {Some(ToDecimal(n)) : n \in {0, MinSize - 1, MinSize, DefaultSize, MaxSize, MaxSize + 1}}

Formats == {Absent, Some(FormatPng), Some(FormatSvg), Some(FormatGif)}

Logos == {NoFile, LogoOk, File(MimePng, FileSizeLimit, TRUE), File(MimePng, FileSizeLimit + 1, TRUE),
          File(MimeText, 1024, FALSE), File(MimeText, FileSizeLimit + 1, FALSE),
          File(MimePng, 1024, FALSE)}

\* every combination of the field values above
FieldSweep ==
    {[body |-> Body(u, fg, bg, s, f), part |-> l] :
        u \in Urls, fg \in Foregrounds, bg \in Backgrounds, s \in SizeTexts, f \in Formats, l \in Logos}

\* every size the schema takes, and its neighbours, with and without a logo
SizeSweep ==
    {[body |-> Body(Some(UrlExample), Absent, Absent, Some(ToDecimal(n)), f), part |-> l] :
        n \in (MinSize - 1)..(MaxSize + 1), f \in {Absent, Some(FormatSvg)}, l \in {NoFile, LogoOk}}

\* other spellings of the fields, and a URL too long to encode
TextSweep ==
    {[body |-> Body(u, fg, Some(ColorMixedCase), Some(ToDecimal(DefaultSize)), f), part |-> l] :
        u \in {Some(UrlLong), Some(UrlNoScheme), Some(UrlExample)},
        fg \in {Some(ColorLong), Some(ColorName), Some(DefaultForeground)},
        f \in {Some(FormatPng), Some(FormatSvg)}, l \in {NoFile, LogoOk}}

Requests == FieldSweep \cup SizeSweep \cup TextSweep

(***************************************************************************)
(* The GET endpoints                                                       *)
(***************************************************************************)
NoAnswer == [route |-> "", id |-> "", status |-> 0, message |-> "", records |-> {}]

\* storage.getAllQrCodes(): Array.from(this.qrCodes.values()), here without its order
GetAllQrCodes(map) == {map[id] : id \in DOMAIN map}

\* storage.getQrCode(id): this.qrCodes.get(id), a record or undefined
GetQrCode(map, id) == IF id \in DOMAIN map THEN {map[id]} ELSE {}

\* GET /api/qr-codes: res.json(qrCodes)
ListAnswer(map) ==
    [route |-> "list", id |-> "", status |-> 200, message |-> "", records |-> GetAllQrCodes(map)]

\* GET /api/qr-codes/:id: 404 when the storage has no such record, else res.json(qrCode)
ByIdAnswer(map, id) ==
    IF GetQrCode(map, id) = {}
    THEN [route |-> "byId", id |-> id, status |-> 404, message |-> "QR code not found", records |-> {}]
    ELSE [route |-> "byId", id |-> id, status |-> 200, message |-> "", records |-> GetQrCode(map, id)]

(***************************************************************************)
(* client: the QrGenerator component                                       *)
(***************************************************************************)
\* "" as a URL state: no preview, no result
EmptyUrl == [prefix |-> <<>>, of |-> NoFile, format |-> <<>>]

DataPrefix(mimetype) == <<"d","a","t","a",":">> \o mimetype \o <<";","b","a","s","e","6","4",",">>

\* reader.readAsDataURL(file): reader.result is the file's type and content as a data URL
ReadAsDataURL(file) == [prefix |-> DataPrefix(file.mimetype), of |-> file, format |-> <<>>]

\* if (logoFile && format === "png") formData.append("logo", logoFile)
AttachesLogo(logoFile, format) == logoFile.present /\ format = FormatPng

\* the multipart request generateQrCode(values, format) sends
ClientRequest(logoFile, format) ==
    [format |-> format,
     logo |-> IF AttachesLogo(logoFile, format) THEN logoFile ELSE NoFile,
     startedWithLogo |-> logoFile.present]

\* the SVG is requested whatever the logo
WantsSvgAlways(logoFile) == TRUE

\* if (!logoFile) svgResult = await generateQrCode(values, "svg")
WantsSvg(logoFile) == ~logoFile.present

\* the qrCodeDataUrl of the server's answer to a request
AnswerUrl(request) ==
    [prefix |-> IF request.format = FormatSvg THEN SvgDataUrlPrefix ELSE PngDataUrlPrefix,
     of |-> request.logo, format |-> request.format]

NoMutation == [isPending |-> FALSE, step |-> "", logoFile |-> NoFile, png |-> EmptyUrl]

\* file.size > 2 * 1024 * 1024
ClientSizeLimit == 2 * 1024 * 1024

LogoOther == File(MimePng, 2048, TRUE)

\* the files the user picks
ClientFiles == {LogoOk, LogoOther, File(MimeText, 1024, FALSE), File(MimePng, ClientSizeLimit + 1, TRUE)}

\* the component after its first render
InitialClient ==
    [logoFile |-> NoFile, logoPreview |-> EmptyUrl, qrCodePngUrl |-> EmptyUrl,
     qrCodeSvgUrl |-> EmptyUrl, readers |-> {}, mutation |-> NoMutation, sent |-> {},
     toast |-> "", downloaded |-> EmptyUrl, sinceReset |-> FALSE]

(***************************************************************************)
(* State: req[r] is the request in flight in slot r, store the record map  *)
(***************************************************************************)
Slots == {"r1", "r2"}

IdleReq ==
    [pc |-> "idle", body |-> Body(Absent, Absent, Absent, Absent, Absent), part |-> NoFile,
     file |-> NoFile, format |-> <<>>, data |-> NoData, encodeCalls |-> <<>>,
     qrBuffer |-> NoImage, logoSize |-> 0, logoPosition |-> 0,
     resizeCalls |-> <<>>, compositeCalls |-> <<>>, qrCodeDataUrl |-> NoDataUrl,
     saved |-> NoRecord, response |-> NoResponse]

Init ==
    /\ req = [r \in Slots |-> IdleReq]
    /\ store = EmptyStore
    /\ storageFault = FALSE
    /\ got = NoAnswer
    /\ client = InitialClient

\* res.status(...).json(...): the request ends with this response
Ended(r, response) == [req[r] EXCEPT !.pc = "done", !.response = response]

\* a multipart request arrives
Receive(r, inputs) ==
    /\ req[r].pc = "idle"
    /\ \E input \in inputs :
           req' = [req EXCEPT ![r] = [@ EXCEPT !.pc = "upload", !.body = input.body, !.part = input.part]]
    /\ UNCHANGED <<store, others>>

\* upload.single("logo"): sets req.file and calls the handler, or fails the request
UploadSingle(r) ==
    /\ req[r].pc = "upload"
    /\ LET err == UploadError(req[r].part)
       IN  IF err # NoError
           THEN req' = [req EXCEPT ![r] = Ended(r, MessageResponse(ErrorStatus(err), err.message))]
           ELSE req' = [req EXCEPT ![r] = [@ EXCEPT !.pc = "handler", !.file = req[r].part]]
    /\ UNCHANGED <<store, others>>

\* the handler up to its first await: parse, qrOptions, the encoder call
HandlerStart(r) ==
    /\ req[r].pc = "handler"
    /\ LET obj == ParseInput(req[r].body)
           issues == SchemaIssues(obj)
           data == SchemaData(obj)
           format == FormatOf(req[r].body)
       IN  IF issues # {}
           THEN req' = [req EXCEPT ![r] =
                           Ended(r, CatchResponse([name |-> "ZodError", message |-> ""], issues))]
           ELSE req' = [req EXCEPT ![r] =
                           [@ EXCEPT !.pc = "encoding", !.format = format, !.data = data,
                                     !.encodeCalls = <<EncodeCall(data, format, req[r].file)>>]]
    /\ UNCHANGED <<store, others>>

\* storage.createQrCode(...) under a new id, then the await before res.json
Saved(r, id, dataUrl) ==
    LET saved == QrCodeRecord(id, InsertOf(req[r].data, req[r].file))
    IN  /\ req' = [req EXCEPT ![r] = [@ EXCEPT !.pc = "responding", !.qrCodeDataUrl = dataUrl,
                                                !.saved = saved]]
        /\ store' = MapSet(store, id, saved)
        /\ UNCHANGED others

\* the image is sent although no record was created
CreateFailedImageSent(r, dataUrl) ==
    /\ req' = [req EXCEPT ![r] = [Ended(r, SuccessResponse(NoRecord, dataUrl))
                                     EXCEPT !.qrCodeDataUrl = dataUrl]]
    /\ UNCHANGED <<store, others>>

\* storage.createQrCode rejects: the catch block answers, the image is dropped
CreateFailed(r, dataUrl) ==
    /\ req' = [req EXCEPT ![r] = [Ended(r, CatchResponse(StorageError, {}))
                                     EXCEPT !.qrCodeDataUrl = dataUrl]]
    /\ UNCHANGED <<store, others>>

\* await storage.createQrCode({ ... }) with the image in hand
Create(r, dataUrl) ==
    IF storageFault
    THEN CreateFailed(r, dataUrl)
    ELSE \E id \in RandomUUID(store) : Saved(r, id, dataUrl)

\* the encoder's promise settles
EncodeDone(r) ==
    /\ req[r].pc = "encoding"
    /\ LET call == req[r].encodeCalls[1]
           logoSize == LogoSize(req[r].data.size)
           logoPosition == LogoPosition(req[r].data.size, logoSize)
       IN  IF EncoderFails(call)
           THEN /\ req' = [req EXCEPT ![r] = Ended(r, CatchResponse(EncoderError, {}))]
                /\ UNCHANGED <<store, others>>
           ELSE IF call.fn = "toString"
           THEN Create(r, SvgDataUrl(Symbol(call)))
           ELSE IF call.fn = "toDataURL"
           THEN Create(r, PngDataUrl(Symbol(call)))
           ELSE /\ req' = [req EXCEPT ![r] =
                              [@ EXCEPT !.pc = "resizing", !.qrBuffer = Symbol(call),
                                        !.logoSize = logoSize, !.logoPosition = logoPosition,
                                        !.resizeCalls = <<ResizeCall(req[r].file, logoSize)>>]]
                /\ UNCHANGED <<store, others>>

\* the logo resize settles
ResizeDone(r) ==
    /\ req[r].pc = "resizing"
    /\ LET call == req[r].resizeCalls[1]
       IN  IF ResizeFails(call)
           THEN req' = [req EXCEPT ![r] = Ended(r, CatchResponse(ResizeError, {}))]
           ELSE req' = [req EXCEPT ![r] =
                           [@ EXCEPT !.pc = "compositing",
                                     !.compositeCalls =
                                         <<CompositeCall(req[r].qrBuffer, call, req[r].logoPosition)>>]]
    /\ UNCHANGED <<store, others>>

\* the composite settles
CompositeDone(r) ==
    /\ req[r].pc = "compositing"
    /\ Create(r, PngDataUrl(Composite(req[r].compositeCalls[1])))

\* res.json(...)
Respond(r) ==
    /\ req[r].pc = "responding"
    /\ req' = [req EXCEPT ![r] = Ended(r, SuccessResponse(req[r].saved, req[r].qrCodeDataUrl))]
    /\ UNCHANGED <<store, others>>

\* GET /api/qr-codes
GetList ==
    /\ got' = ListAnswer(store)
    /\ UNCHANGED <<req, store, storageFault, client>>

\* GET /api/qr-codes/:id
GetById(id) ==
    /\ got' = ByIdAnswer(store, id)
    /\ UNCHANGED <<req, store, storageFault, client>>

\* the storage behind IStorage starts or stops rejecting createQrCode
StorageFaultToggles ==
    /\ storageFault' = ~storageFault
    /\ UNCHANGED <<req, store, got, client>>

\* one request, from arrival to response
Next ==
    \/ Receive("r1", Requests)
    \/ UploadSingle("r1")
    \/ HandlerStart("r1")
    \/ EncodeDone("r1")
    \/ ResizeDone("r1")
    \/ CompositeDone("r1")
    \/ Respond("r1")

Spec == Init /\ [][Next]_vars

\* the requests of the concurrent runs: plain, SVG with a logo, PNG with a logo, a
\* refused url, a logo sharp cannot read, a logo the file filter refuses
ServerRequests ==
    {[body |-> Body(Some(UrlExample), Absent, Absent, Absent, Absent), part |-> NoFile],
     [body |-> Body(Some(UrlExample), Absent, Absent, Absent, Some(FormatSvg)), part |-> LogoOk],
     [body |-> Body(Some(UrlExample), Some(ColorMixedCase), Absent, Some(ToDecimal(MinSize)), Absent),
      part |-> LogoOk],
     [body |-> Body(Some(UrlNotAUrl), Absent, Absent, Absent, Absent), part |-> NoFile],
     [body |-> Body(Some(UrlExample), Absent, Absent, Absent, Absent), part |-> File(MimePng, 1024, FALSE)],
     [body |-> Body(Some(UrlExample), Absent, Absent, Absent, Absent), part |-> File(MimeText, 1024, FALSE)]}

\* the server: concurrent POST /api/generate requests, the GET endpoints, and a
\* storage whose createQrCode may reject
NextServer ==
    \/ \E r \in Slots :
          \/ Receive(r, ServerRequests)
          \/ UploadSingle(r)
          \/ HandlerStart(r)
          \/ EncodeDone(r)
          \/ ResizeDone(r)
          \/ CompositeDone(r)
          \/ Respond(r)
    \/ GetList
    \/ \E id \in Ids : GetById(id)
    \/ StorageFaultToggles

SpecServer == Init /\ [][NextServer]_vars

(***************************************************************************)
(* client: the component's handlers and callbacks                          *)
(***************************************************************************)
\* handleLogoUpload; the upload zone is rendered while there is no preview
HandleLogoUpload(files) ==
    /\ client.logoPreview = EmptyUrl
    /\ \E file \in files :
           client' = IF ~StartsWith(file.mimetype, ImagePrefix)
                     THEN [client EXCEPT !.toast = "Invalid File"]
                     ELSE IF file.bytes > ClientSizeLimit
                     THEN [client EXCEPT !.toast = "File Too Large"]
                     ELSE [client EXCEPT !.logoFile = file, !.readers = @ \cup {file}]
    /\ UNCHANGED serverVars

\* reader.onloadend of one of the reads in flight
OnLoadEnd ==
    /\ \E file \in client.readers :
           client' = [client EXCEPT !.logoPreview = ReadAsDataURL(file), !.readers = @ \ {file}]
    /\ UNCHANGED serverVars

\* removeLogo; its button is rendered with the preview
RemoveLogo ==
    /\ client.logoPreview # EmptyUrl
    /\ client' = [client EXCEPT !.logoFile = NoFile, !.logoPreview = EmptyUrl]
    /\ UNCHANGED serverVars

\* handleReset; its button is rendered with the result
HandleReset ==
    /\ client.qrCodePngUrl # EmptyUrl
    /\ client' = [client EXCEPT !.qrCodePngUrl = EmptyUrl, !.qrCodeSvgUrl = EmptyUrl,
                                 !.logoPreview = EmptyUrl, !.logoFile = NoFile,
                                 !.sinceReset = TRUE]
    /\ UNCHANGED serverVars

\* onSubmit: generateMutation.mutate(values) sends the PNG request; the Generate
\* button is disabled while a mutation is pending, and mutationFn closes over the
\* logoFile of the render it was started from
OnSubmit ==
    /\ ~client.mutation.isPending
    /\ client' = [client EXCEPT !.mutation = [isPending |-> TRUE, step |-> "png",
                                               logoFile |-> client.logoFile, png |-> EmptyUrl],
                                 !.sent = @ \cup {ClientRequest(client.logoFile, FormatPng)},
                                 !.sinceReset = FALSE]
    /\ UNCHANGED serverVars

\* onSuccess(data); svg is EmptyUrl when data.svg is undefined
OnSuccess(c, png, svg) ==
    [c EXCEPT !.qrCodePngUrl = png, !.qrCodeSvgUrl = svg, !.mutation = NoMutation,
              !.toast = "QR Code Generated"]

\* onError(error)
OnError(c) == [c EXCEPT !.mutation = NoMutation, !.toast = "Generation Failed"]

\* the PNG request settles: the SVG request follows, or the mutation ends
PngSettles(oks) ==
    /\ client.mutation.isPending
    /\ client.mutation.step = "png"
    /\ \E ok \in oks :
           LET logoFile == client.mutation.logoFile
               png == AnswerUrl(ClientRequest(logoFile, FormatPng))
           IN  client' = IF ~ok THEN OnError(client)
                         ELSE IF WantsSvg(logoFile)
                         THEN [client EXCEPT !.mutation.step = "svg", !.mutation.png = png,
                                             !.sent = @ \cup {ClientRequest(logoFile, FormatSvg)}]
                         ELSE OnSuccess(client, png, EmptyUrl)
    /\ UNCHANGED serverVars

\* the SVG request settles
SvgSettles(oks) ==
    /\ client.mutation.isPending
    /\ client.mutation.step = "svg"
    /\ \E ok \in oks :
           LET svg == AnswerUrl(ClientRequest(client.mutation.logoFile, FormatSvg))
           IN  client' = IF ~ok THEN OnError(client)
                         ELSE OnSuccess(client, client.mutation.png, svg)
    /\ UNCHANGED serverVars

\* downloadQrCode(format); the buttons are rendered with the result, the SVG one
\* disabled while there is no SVG
DownloadQrCode(format) ==
    /\ client.qrCodePngUrl # EmptyUrl
    /\ LET dataUrl == IF format = FormatPng THEN client.qrCodePngUrl ELSE client.qrCodeSvgUrl
       IN  /\ dataUrl # EmptyUrl
           /\ client' = [client EXCEPT !.downloaded = dataUrl, !.toast = "Download Started"]
    /\ UNCHANGED serverVars

\* the user's events and the callbacks of the reads and requests in flight
NextClient ==
    \/ HandleLogoUpload(ClientFiles)
    \/ OnLoadEnd
    \/ RemoveLogo
    \/ HandleReset
    \/ OnSubmit
    \/ PngSettles(BOOLEAN)
    \/ SvgSettles(BOOLEAN)
    \/ \E format \in {FormatPng, FormatSvg} : DownloadQrCode(format)

SpecClient == Init /\ [][NextClient]_vars

(***************************************************************************)
(* Properties                                                              *)
(***************************************************************************)
\* the request's parameters passed validation: the handler went on to the encoder
Validated(r) == req[r].encodeCalls # <<>>

\* the request ended with the validation failure response
ValidationFailed(r) ==
    /\ req[r].pc = "done"
    /\ req[r].response.status = 400
    /\ req[r].response.message = "Invalid request data"

Succeeded(r) == req[r].pc = "done" /\ req[r].response.status = 200

\* the text is a decimal integer, read without parseInt
IsInteger(s) ==
    \/ s # <<>> /\ \A i \in 1..Len(s) : s[i] \in Digits
    \/ Len(s) > 1 /\ s[1] \in {"+", "-"} /\ \A i \in 2..Len(s) : s[i] \in Digits

IntegerOf(s) ==
    IF s[1] = "-" THEN 0 - NumberOf(Tail(s), 10)
    ELSE IF s[1] = "+" THEN NumberOf(Tail(s), 10)
    ELSE NumberOf(s, 10)

SizeInRange(v) == v.present /\ IsInteger(v.val) /\ IntegerOf(v.val) \in 200..400

\* C1: a submitted size passes validation iff it denotes an integer in [200, 400];
\* any other value, non-numeric ones and 0 included, is rejected with HTTP 400 and
\* never replaced by a default, and an accepted size is the submitted integer.
C1_SizeAcceptedIffInRange ==
    \A r \in Slots :
        /\ Validated(r) /\ req[r].body.size.present =>
              /\ SizeInRange(req[r].body.size)
              /\ req[r].data.size = IntegerOf(req[r].body.size.val)
        /\ ValidationFailed(r) /\ req[r].body.size.present =>
              ("size" \in req[r].response.errors <=> ~SizeInRange(req[r].body.size))

\* the color a field resolves to under the claim: the default for an absent field only
ColorAccepted(v) == ~v.present \/ (Len(v.val) = 7 /\ v.val[1] = "#" /\ \A i \in 2..7 : v.val[i] \in HexDigits)

\* C2: a foregroundColor or backgroundColor is accepted iff it matches
\* #[0-9A-Fa-f]{6}; a present value that does not match, the empty string
\* included, is rejected with HTTP 400, and the default stands for an absent
\* field only.
C2_ColorAcceptedIffHex ==
    \A r \in Slots :
        /\ Validated(r) =>
              /\ ColorAccepted(req[r].body.foregroundColor)
              /\ ColorAccepted(req[r].body.backgroundColor)
              /\ req[r].body.foregroundColor.present =>
                    req[r].data.foregroundColor = req[r].body.foregroundColor.val
              /\ req[r].body.backgroundColor.present =>
                    req[r].data.backgroundColor = req[r].body.backgroundColor.val
        /\ ValidationFailed(r) =>
              /\ "foregroundColor" \in req[r].response.errors
                    <=> ~ColorAccepted(req[r].body.foregroundColor)
              /\ "backgroundColor" \in req[r].response.errors
                    <=> ~ColorAccepted(req[r].body.backgroundColor)

\* C3: a url is accepted only if it is an absolute URL with a scheme and a host:
\* no request whose url lacks a scheme or a host reaches the encoder, and a
\* request that fails validation with an absent or unparseable url is told so.
C3_UrlHasSchemeAndHost ==
    \A r \in Slots :
        /\ \A i \in 1..Len(req[r].encodeCalls) :
              /\ ParseUrl(req[r].encodeCalls[i].text).scheme # <<>>
              /\ ParseUrl(req[r].encodeCalls[i].text).host # <<>>
        /\ ValidationFailed(r) /\ ~(req[r].body.url.present /\ ParseUrl(req[r].body.url.val).ok)
              => "url" \in req[r].response.errors

\* the constraints a request violates: the fields the schema refuses, and the logo
\* when the upload policy refuses it
Violations(r) ==
    SchemaIssues(ParseInput(req[r].body))
    \cup {f \in {"logo"} : UploadError(req[r].part) # NoError}

\* C4: validation errors are collected: a request that violates any of the
\* constraints on url, colors, size and logo ends with one HTTP 400 response
\* that lists every violated field, so a logo violation hides no other.
C4_AllViolationsListed ==
    \A r \in Slots :
        req[r].pc = "done" /\ Violations(r) # {} =>
            /\ req[r].response.status = 400
            /\ Violations(r) \subseteq req[r].response.errors

\* the upload step has run on a request that carries a logo part
Uploaded(r) == req[r].pc \notin {"idle", "upload"} /\ req[r].part.present

IsImageType(mimetype) == Len(mimetype) >= 6 /\ SubSeq(mimetype, 1, 6) = <<"i","m","a","g","e","/">>

C6_UploadViolationIs400 ==
    \A r \in Slots :
        req[r].pc = "done" /\ UploadError(req[r].part) # NoError =>
            /\ req[r].response.status = 400
            /\ req[r].response.message # ""
            /\ ~req[r].response.result.present
            /\ req[r].saved = NoRecord

\* the compositor step was started for the request
CompositorInvoked(r) == req[r].resizeCalls # <<>> \/ req[r].compositeCalls # <<>>

\* C7: the compositor (logo resize and overlay) runs iff a logo is present and the
\* image is served as PNG: never for format=svg, whose payload is the encoder's
\* markup, and a PNG request without a logo returns the encoder's raster unchanged.
C7_CompositorIffLogoAndPng ==
    \A r \in Slots :
        /\ CompositorInvoked(r) => req[r].file.present /\ req[r].format # FormatSvg
        /\ Succeeded(r) =>
              LET image == req[r].response.result.qrCodeDataUrl.image
                  drawn == Symbol(req[r].encodeCalls[1])
              IN  /\ (req[r].resizeCalls # <<>> /\ req[r].compositeCalls # <<>> /\ image.overlay.present)
                        <=> (req[r].file.present /\ req[r].format # FormatSvg)
                  /\ req[r].format = FormatSvg => image.kind = "svg" /\ image = drawn
                  /\ req[r].format # FormatSvg /\ ~req[r].file.present => image.kind = "png" /\ image = drawn
                  /\ image.overlay.present => image.kind = "png"

\* an SVG request with a logo attached succeeded without the compositor
C7_Witness ==
    \E r \in Slots :
        /\ Succeeded(r)
        /\ req[r].format = FormatSvg
        /\ req[r].file.present
        /\ ~CompositorInvoked(r)
        /\ req[r].response.result.qrCodeDataUrl.image.kind = "svg"

\* the format a request resolves to: absent defaults to png
RequestedFormat(r) == IF req[r].body.format.present THEN req[r].body.format.val ELSE <<"p","n","g">>

\* C8: every successful generation has format png or svg (absent is png), its data
\* URL starts with data:image/svg+xml;base64, exactly for svg and with
\* data:image/png;base64, exactly for png; no other format string succeeds.
C8_FormatIsPngOrSvg ==
    \A r \in Slots :
        Succeeded(r) =>
            /\ RequestedFormat(r) \in {<<"p","n","g">>, <<"s","v","g">>}
            /\ req[r].response.result.qrCodeDataUrl.prefix = SvgDataUrlPrefix
                  <=> RequestedFormat(r) = <<"s","v","g">>
            /\ req[r].response.result.qrCodeDataUrl.prefix = PngDataUrlPrefix
                  <=> RequestedFormat(r) = <<"p","n","g">>

\* C9: the compositor resizes the logo to logoSize = floor(size * 0.25) and lays it
\* at top = left = logoPosition = floor((size - logoSize) / 2); for size 300 that
\* is a 75-pixel square from (112,112) to (187,187).
C9_LogoGeometry ==
    \A r \in Slots :
        \A i \in 1..Len(req[r].compositeCalls) :
            LET call == req[r].compositeCalls[i]
                size == req[r].data.size
                side == call.input.width
            IN  /\ call.base.width = size
                /\ call.input.height = side
                /\ 4 * side <= size /\ size < 4 * (side + 1)
                /\ call.top = call.left
                /\ 2 * call.top <= size - side /\ size - side < 2 * (call.top + 1)
                /\ size = 300 => side = 75 /\ call.top = 112 /\ call.top + side = 187
                /\ Succeeded(r) =>
                      req[r].response.result.qrCodeDataUrl.image.overlay =
                          [present |-> TRUE, logo |-> req[r].file, side |-> side,
                           top |-> call.top, left |-> call.left]

\* a 300-pixel request was composited with the logo at (112,112), 75 pixels wide
C9_Witness ==
    \E r \in Slots :
        /\ Succeeded(r)
        /\ req[r].data.size = 300
        /\ req[r].compositeCalls # <<>>
        /\ req[r].response.result.qrCodeDataUrl.image.overlay.top = 112
        /\ req[r].response.result.qrCodeDataUrl.image.overlay.side = 75

\* C10: every encoder call of POST /api/generate (SVG, PNG with logo, PNG without
\* logo) runs at the highest error-correction level, H.
C10_HighestErrorCorrection ==
    \A r \in Slots :
        \A i \in 1..Len(req[r].encodeCalls) :
            ErrorCorrectionLevel(req[r].encodeCalls[i].options) = "H"

\* every field check of the schema and the upload policy pass, read off the request
PassesValidation(r) ==
    LET obj == ParseInput(req[r].body)
    IN  /\ ZodUrlOk(obj.url)
        /\ ZodColorOk(obj.foregroundColor)
        /\ ZodColorOk(obj.backgroundColor)
        /\ ZodSizeOk(obj.size)
        /\ UploadError(req[r].part) = NoError

\* the request has reached the encoder, the compositor or the storage
WorkStarted(r) ==
    \/ req[r].encodeCalls # <<>>
    \/ req[r].resizeCalls # <<>>
    \/ req[r].compositeCalls # <<>>
    \/ req[r].qrCodeDataUrl # NoDataUrl
    \/ req[r].saved # NoRecord

\* C11: validation comes before any work: a request has an encoder call, a
\* compositor call or a record only after its validation succeeded, and a request
\* that fails validation ends without an image and without a record.
C11_ValidationBeforeWork ==
    /\ \A r \in Slots :
          /\ WorkStarted(r) =>
                /\ PassesValidation(r)
                /\ req[r].data = SchemaData(ParseInput(req[r].body))
          /\ req[r].pc = "done" /\ ~PassesValidation(r) =>
                /\ ~WorkStarted(r)
                /\ req[r].response.status # 200
                /\ ~req[r].response.result.present
                /\ req[r].response.result.qrCodeDataUrl = NoDataUrl
    /\ \A id \in DOMAIN store :
          \E r \in Slots : req[r].saved = store[id] /\ PassesValidation(r)

\* a request was refused by the schema and left no call and no record behind
C11_Witness ==
    \E r \in Slots :
        /\ ValidationFailed(r)
        /\ ~PassesValidation(r)
        /\ ~WorkStarted(r)
        /\ store = EmptyStore

\* the request ran into a fault of the encoder or of the compositor
ProcessingFault(r) ==
    \/ req[r].encodeCalls # <<>> /\ EncoderFails(req[r].encodeCalls[1])
    \/ req[r].resizeCalls # <<>> /\ ResizeFails(req[r].resizeCalls[1])

\* the message texts of the internal errors
InternalMessages == {EncoderError.message, ResizeError.message, StorageError.message}

\* C12: a processing fault (encoder failure, undecodable logo) ends the request
\* with HTTP 500 and a generic message, never the internal error's own message,
\* without a retry, without a fall-back image and without a record.
C12_FaultIsGeneric500 ==
    \A r \in Slots :
        req[r].pc = "done" /\ ProcessingFault(r) =>
            /\ req[r].response.status = 500
            /\ req[r].response.message \notin InternalMessages
            /\ Len(req[r].encodeCalls) = 1
            /\ Len(req[r].resizeCalls) <= 1
            /\ ~req[r].response.result.present
            /\ req[r].saved = NoRecord

\* C16: for every size the validator accepts, each integer of [200, 400], the
\* logo square lies inside the raster and is centred to within one pixel:
\* 0 <= logoPosition, logoPosition + logoSize <= size, and what is left over,
\* (size - logoSize) - 2 * logoPosition, is 0 or 1, the odd pixel at the bottom
\* and right.
C16_LogoInsideAndCentred ==
    \A r \in Slots :
        /\ req[r].file.present /\ req[r].format # FormatSvg /\ req[r].encodeCalls # <<>> =>
              req[r].data.size \in 200..400
        /\ \A i \in 1..Len(req[r].compositeCalls) :
              LET call == req[r].compositeCalls[i]
                  size == call.base.width
                  side == call.input.width
                  before == call.top
                  after == size - (call.top + side)
              IN  /\ size = req[r].data.size
                  /\ size \in 200..400
                  /\ call.input.height = side
                  /\ call.left = call.top
                  /\ 0 <= before
                  /\ before + side <= size
                  /\ after - before \in {0, 1}

\* a raster of odd left-over (size 201, logo 50) was composited, the logo one
\* pixel nearer the top left
C16_Witness ==
    \E r \in Slots :
        /\ Succeeded(r)
        /\ req[r].compositeCalls # <<>>
        /\ req[r].data.size = 201
        /\ req[r].compositeCalls[1].top = 75
        /\ req[r].compositeCalls[1].input.width = 50
        /\ req[r].response.result.qrCodeDataUrl.image.overlay.top = 75

\* C17: the stored record has hasLogo = "true", and a logo snapshot, exactly when
\* the image returned contains the logo overlay; a successful SVG request with a
\* logo attached is not recorded as having a logo.
C17_HasLogoIffOverlay ==
    \A r \in Slots :
        Succeeded(r) =>
            LET record == store[req[r].response.result.id]
                overlaid == req[r].response.result.qrCodeDataUrl.image.overlay.present
            IN  /\ record.hasLogo = "true" <=> overlaid
                /\ record.logoData.present <=> overlaid

\* C13: the record store is insert-only: a step of any endpoint leaves every
\* stored record under its id with the field values it was created with, each
\* record is stored under its own id, and a step that answers a GET leaves the
\* store as it was.
C13_StoreInsertOnly ==
    /\ [](\A id \in DOMAIN store : store[id].id = id)
    /\ [][/\ \A id \in DOMAIN store : id \in DOMAIN store' /\ store'[id] = store[id]
          /\ got' # got => store' = store]_vars

\* two records are stored and the list endpoint has answered with both
C13_Witness ==
    /\ Cardinality(DOMAIN store) = 2
    /\ got.route = "list"
    /\ got.records = {store[id] : id \in DOMAIN store}
    /\ \A r \in Slots : Succeeded(r)

\* createQrCode has run for the request
Stored(r) == req[r].saved # NoRecord

Failed(r) == req[r].pc = "done" /\ req[r].response.status # 200

\* C14: under every interleaving of concurrent POST /api/generate requests the
\* store holds one record per request that returned success and none for one
\* that failed; ids are pairwise distinct, the id of a success response is the
\* key of that request's own record, whose url, size and colors are the ones
\* echoed; GET /api/qr-codes/:id answers with the record, and with 404 for an id
\* not issued.
C14_OneRecordPerSuccess ==
    /\ [](/\ \A r \in Slots :
                /\ Succeeded(r) =>
                      LET result == req[r].response.result
                      IN  /\ Stored(r)
                          /\ result.id \in DOMAIN store
                          /\ store[result.id] = req[r].saved
                          /\ store[result.id].id = result.id
                          /\ store[result.id].url = result.url
                          /\ store[result.id].size = result.size
                          /\ store[result.id].foregroundColor = result.foregroundColor
                          /\ store[result.id].backgroundColor = result.backgroundColor
                /\ Failed(r) => ~Stored(r)
                /\ \A q \in Slots \ {r} : Stored(r) /\ Stored(q) => req[r].saved.id # req[q].saved.id
          /\ DOMAIN store = {req[r].saved.id : r \in {q \in Slots : Stored(q)}}
          /\ (\A r \in Slots : req[r].pc = "done") =>
                Cardinality(DOMAIN store) = Cardinality({r \in Slots : Succeeded(r)})
          /\ got.route = "byId" /\ got.status = 200 =>
                got.id \in DOMAIN store /\ got.records = {store[got.id]}
          /\ got.route = "byId" /\ got.id \notin DOMAIN store => got.status = 404)
    /\ [][got' # got /\ got'.route = "byId" =>
              (got'.status = 404 <=> got'.id \notin DOMAIN store)]_vars

\* two concurrent requests succeeded, each with its own record, and the id left
\* over was answered with 404
C14_Witness ==
    /\ Succeeded("r1") /\ Succeeded("r2")
    /\ req["r1"].response.result.id # req["r2"].response.result.id
    /\ got.route = "byId"
    /\ got.status = 404
    /\ got.id \notin DOMAIN store

\* the image was generated and createQrCode rejected
CreateRejected(r) == req[r].pc = "done" /\ req[r].qrCodeDataUrl # NoDataUrl /\ ~Stored(r)

\* C18: when storage.createQrCode fails after the image was generated the request
\* ends with HTTP 500 and without the image; a success response is sent only
\* after the record was created, so success responses and stored records
\* correspond one to one.
C18_NoImageWithoutRecord ==
    /\ \A r \in Slots :
          /\ CreateRejected(r) =>
                /\ req[r].response.status = 500
                /\ ~req[r].response.result.present
                /\ req[r].response.result.qrCodeDataUrl = NoDataUrl
          /\ req[r].response.result.present =>
                /\ Stored(r)
                /\ req[r].response.result.id \in DOMAIN store
                /\ store[req[r].response.result.id] = req[r].saved
          /\ \A q \in Slots \ {r} :
                Succeeded(r) /\ Succeeded(q) => req[r].response.result.id # req[q].response.result.id
    /\ (\A r \in Slots : req[r].pc = "done") =>
          DOMAIN store = {req[r].response.result.id : r \in {q \in Slots : Succeeded(q)}}

\* one request lost its image to a rejected createQrCode while the other one
\* succeeded with its record
C18_Witness ==
    \E r \in Slots, q \in Slots :
        /\ CreateRejected(r)
        /\ req[r].response.status = 500
        /\ Succeeded(q)
        /\ DOMAIN store = {req[q].response.result.id}

\* C15: the client never asks for SVG with a logo: every request sent with format
\* svg carries no logo part and comes from a generation started without a logo,
\* and after a successful generation with a logo the SVG URL is empty.
C15_NoSvgWithLogo ==
    /\ \A request \in client.sent :
          request.format = FormatSvg => ~request.logo.present /\ ~request.startedWithLogo
    /\ \A request \in client.sent : request.logo.present => request.format = FormatPng
    /\ client.qrCodePngUrl.of.present => client.qrCodeSvgUrl = EmptyUrl

\* after a generation without a logo, which asked for the SVG, a generation with a
\* logo succeeded and left no SVG
C15_Witness ==
    /\ \E request \in client.sent : request.format = FormatSvg
    /\ \E request \in client.sent : request.format = FormatPng /\ request.logo.present
    /\ client.qrCodePngUrl.of.present
    /\ client.qrCodeSvgUrl = EmptyUrl
    /\ ~client.mutation.isPending

\* C19: once no file read is in flight the logo preview and the logo file agree:
\* the preview is non-empty iff there is a file, and it is the data URL of that
\* file, whatever the order of uploads, removals, resets and onloadend callbacks.
C19_PreviewAgreesWithFile ==
    client.readers = {} =>
        /\ client.logoPreview # EmptyUrl <=> client.logoFile.present
        /\ client.logoFile.present => client.logoPreview = ReadAsDataURL(client.logoFile)

\* C20: from a Reset until the next click on Generate the client shows no result:
\* qrCodePngUrl and qrCodeSvgUrl stay empty, also when the Reset came while a
\* generation was pending whose onSuccess runs afterwards.
C20_NoResultAfterReset ==
    client.sinceReset =>
        /\ client.qrCodePngUrl = EmptyUrl
        /\ client.qrCodeSvgUrl = EmptyUrl

====
